---- MODULE Spec2Model ----
(***************************************************************************)
(* Model of cassandra/cqlengine/connection.py: the module-level connection *)
(* registry (cluster, session, lazy_connect_args,                          *)
(* default_consistency_level, udt_by_keyspace), the SessionManager router  *)
(* and the dispatcher execute().                                           *)
(*                                                                         *)
(* Python values are modelled as follows.                                  *)
(*   None            the empty sequence <<>>; any other value v of an      *)
(*                   optional is the one-element sequence <<v>>            *)
(*   Cluster object  a record [id, hosts, user_types]; id is the object's  *)
(*                   identity                                              *)
(*   Session object  a record [kind, id, row_factory]; a Cluster backs one *)
(*                   Session, which carries its Cluster's id               *)
(*   SessionManager  a record holding its two dicts, kept in session       *)
(*   str names       sequences of one-character strings, so that           *)
(*                   str.format concatenation is computed, not assumed     *)
(*   dict            a function on the set of its keys                     *)
(*   raise           the err field of a call's result ("" is a normal      *)
(*                   return)                                               *)
(* The variable ret is the observation of the last call: the operation,    *)
(* its arguments, what it raised or returned and the calls it made on the  *)
(* driver (connect attempts, statements submitted, types registered).      *)
(***************************************************************************)
EXTENDS Integers, Sequences, FiniteSets, TLC

\* ---------------------------------------------------------------- bounds
\* Entries of the connections dict handed to one setup_connections() call.
MaxConns == 2

\* Entries that may be recorded in udt_by_keyspace in one run.
MaxUdt == 2

\* ------------------------------------------------------ program constants
\* cassandra.ConsistencyLevel.ANY and .ONE
ANY == 0

ONE == 1

None == <<>>

Some(v) == <<v>>

\* ------------------------------------------------------------ input sets
Hosts == {"localhost", "h1"}

\* Cluster() without arguments: the driver's default contact point
DefaultHosts == <<"localhost">>

\* keyspace names: alphanumeric/underscore identifiers
Keyspaces == {<<"k">>, <<"_", "k">>}

ClusterNames == {<<"c">>, <<"c", "_">>}

TypeNames == {"t1", "t2"}

Klasses == {"A"}

\* the three shapes of query execute() distinguishes; a driver-native
\* Statement carries its own consistency level
Queries == {[kind |-> "Statement", consistency_level |-> Some(ANY)],
            [kind |-> "BaseCQLStatement", consistency_level |-> None],
            [kind |-> "str", consistency_level |-> None]}

RowFactories == {"dict_factory", "named_tuple_factory"}

\* the caller threads
Threads == {"t1", "t2"}

\* a thread that is in no call
Idle == [pc |-> "idle"]

\* --------------------------------------------------------------- state
\* cluster, session, lazy_connect_args, default_consistency_level and
\* udt_by_keyspace are the module globals of lines 33-42;
\* models_default_keyspace is models.default_keyspace (line 113); reachable
\* is the set of hosts that accept connections.  added is a history
\* variable: for each (cluster_name, keyspace) pair added to the current
\* SessionManager, the identity of the session its latest add_connection
\* created.  recorded is a history variable too: the (keyspace, type_name)
\* entries that register_udt recorded while no cluster was set, in the
\* order of their first registration; it is None in the specifications
\* that keep no such record.  threads gives, for
\* each caller thread, its position in execute() or get_session() and its
\* local variables; resolved is a history variable: the setup() calls made
\* by handle_lazy_connect since lazy_connect_args was last armed.
VARIABLES cluster, session, lazy_connect_args, default_consistency_level, udt_by_keyspace, models_default_keyspace, reachable, added, recorded, threads, resolved, ret

vars == <<cluster, session, lazy_connect_args, default_consistency_level, udt_by_keyspace, models_default_keyspace, reachable, added, recorded, threads, resolved, ret>>

\* The module globals that the functions read and assign, as one record.
Globals == [cluster |-> cluster, session |-> session, lazy_connect_args |-> lazy_connect_args, default_consistency_level |-> default_consistency_level, default_keyspace |-> models_default_keyspace]

EmptyDict == [k \in {} |-> None]

\* d[k] = v and d.update({k: v})
DictSet(d, k, v) == [x \in DOMAIN d \cup {k} |-> IF x = k THEN v ELSE d[x]]

\* ------------------------------------------------------ driver objects
\* Cluster(hosts)
NewCluster(id, hosts) == [id |-> id, hosts |-> hosts, user_types |-> {}]

\* The Session a successful cluster.connect() returns; the driver's default
\* row factory is named_tuple_factory.
NewSession(c, row_factory) == [kind |-> "Session", id |-> c.id, row_factory |-> row_factory]

\* cluster.connect(): succeeds iff one contact point is reachable,
\* otherwise NoHostAvailable
CanConnect(hosts) == \E i \in 1..Len(hosts) : hosts[i] \in reachable

Connect(c) == [cluster |-> c.id, hosts |-> c.hosts, ok |-> CanConnect(c.hosts)]

\* The identities of the objects the registry still refers to.
LiveIds(g) ==
    (IF g.cluster = None THEN {} ELSE {g.cluster[1].id})
    \cup (IF g.session = None THEN {}
          ELSE IF g.session[1].kind = "Session" THEN {g.session[1].id}
          ELSE {g.session[1].sessions[k].id : k \in DOMAIN g.session[1].sessions})

\* The identity of a newly constructed object: one no live object has.
FreshId(g) == CHOOSE n \in 1..(Cardinality(LiveIds(g)) + 1) : n \notin LiveIds(g) /\ \A m \in 1..(n - 1) : m \in LiveIds(g)

\* ---------------------------------------------------- get_connection_key
get_connection_key(clustername, keyspace) == clustername \o <<"_", "_">> \o keyspace

\* ------------------------------------------------------- results of calls
\* What a call leaves behind: the globals after it, what it raised, the
\* connect attempts it made, the setup() calls made by handle_lazy_connect,
\* the statements it submitted to sessions, the register_user_type calls it
\* made and the value it returned.
Result(g, err) == [g |-> g, err |-> err, connects |-> <<>>, setups |-> <<>>, submitted |-> <<>>, registered |-> <<>>, value |-> None]

\* ------------------------------------------------- _register_known_types
\* The (keyspace, type_name, klass) items of the pending map.
Entries(udt) == UNION {{<<ks, tn, udt[ks][tn]>> : tn \in DOMAIN udt[ks]} : ks \in DOMAIN udt}

Perms(S) == {f \in [1..Cardinality(S) -> S] : \A i, j \in 1..Cardinality(S) : i # j => f[i] # f[j]}

\* The orders in which the nested loops of lines 283-284 can visit the
\* pending map: dict iteration order is arbitrary, and the types of one
\* keyspace are visited together.
Orders(udt) == {o \in Perms(Entries(udt)) : \A i, j, k \in 1..Len(o) : (i < j /\ j < k /\ o[i][1] = o[k][1]) => o[j][1] = o[i][1]}

\* What Cluster.register_user_type can do with one entry.
Outcomes == {"ok", "UserTypeDoesNotExist", "Exception"}

\* cluster.register_user_type(keyspace, type_name, klass) that returned
\* normally: the cluster maps (keyspace, type_name) to klass.
register_user_type(c, e) == [c EXCEPT !.user_types = {x \in @ : <<x[1], x[2]>> # <<e[1], e[2]>>} \cup {e}]

RECURSIVE Replay(_, _, _, _)
Replay(c, order, out, i) ==
    IF i > Len(order)
    THEN [cluster |-> c, err |-> "", registered |-> <<>>]
    ELSE LET call == [cluster |-> c.id, entry |-> order[i], outcome |-> out[order[i]]]
         IN  IF call.outcome = "Exception"
             THEN [cluster |-> c, err |-> "Exception", registered |-> <<call>>]
             ELSE LET rest == Replay(IF call.outcome = "ok" THEN register_user_type(c, order[i]) ELSE c, order, out, i + 1)
                  IN  [rest EXCEPT !.registered = <<call>> \o @]

\* _register_known_types(cluster), visiting the map in the given order,
\* each register_user_type call ending as out says.
register_known_types(c, order, out) == Replay(c, order, out, 1)

\* ---------------------------------------------------------------- default
default(g, order, out) ==
    LET c == NewCluster(FreshId(g), DefaultHosts)
        g1 == [g EXCEPT !.cluster = Some(c)]
    IN  IF ~CanConnect(c.hosts)
        THEN [Result(g1, "NoHostAvailable") EXCEPT !.connects = <<Connect(c)>>]
        ELSE LET w == register_known_types(c, order, out)
             IN  [Result([g1 EXCEPT !.session = Some(NewSession(c, "dict_factory")), !.cluster = Some(w.cluster)], w.err) EXCEPT !.connects = <<Connect(c)>>, !.registered = w.registered]

\* ------------------------------------------------------------ set_session
\* A slip the model is tested against: the row factory is never checked.
RowFactoryMismatch_Never(s) == FALSE

\* Line 80: s.row_factory is not dict_factory
RowFactoryMismatch(s) == s.row_factory # "dict_factory"

\* s is the Session handed in and sc its Cluster (s.cluster).
set_session(g, s, sc, order, out) ==
    IF RowFactoryMismatch(s)
    THEN Result(g, "CQLEngineException: row_factory")
    ELSE LET w == register_known_types(sc, order, out)
         IN  [Result([g EXCEPT !.session = Some(s), !.cluster = Some(w.cluster)], w.err) EXCEPT !.registered = w.registered]

\* ----------------------------------------------------------------- setup
\* A slip the model is tested against: the stored options keep
\* lazy_connect as the caller gave it instead of forcing it to False.
LazyArgs_KeepLazy(hosts, default_keyspace, consistency, retry_connect, kwargs) == [hosts |-> hosts, kwargs |-> [extra |-> kwargs, default_keyspace |-> default_keyspace, consistency |-> consistency, lazy_connect |-> TRUE, retry_connect |-> retry_connect]]

\* The (hosts, kwargs) tuple stored in lazy_connect_args (lines 117-121 and
\* 131-135): the pass-through kwargs plus the four named options.
LazyArgs(hosts, default_keyspace, consistency, retry_connect, kwargs) == [hosts |-> hosts, kwargs |-> [extra |-> kwargs, default_keyspace |-> default_keyspace, consistency |-> consistency, lazy_connect |-> FALSE, retry_connect |-> retry_connect]]

\* A slip the model is tested against: only 'username' is rejected.
HasCredentials_UsernameOnly(kwargs) == "username" \in kwargs

\* Line 109: 'username' in kwargs or 'password' in kwargs
HasCredentials(kwargs) == "username" \in kwargs \/ "password" \in kwargs

\* Line 124 reads "cluster = cluster(hosts, **kwargs)": the callee is the
\* module global cluster, which holds None or a Cluster instance (default()
\* line 59, set_session() line 83).  Neither is callable, so the call raises
\* TypeError before the assignment, and lines 125-139 (connect, the
\* NoHostAvailable handler, row_factory, _register_known_types) never run.
callable(c) == FALSE

setup(g, hosts, default_keyspace, consistency, lazy_connect, retry_connect, kwargs) ==
    IF HasCredentials(kwargs)
    THEN Result(g, "CQLEngineException: username & password")
    ELSE LET g1 == [g EXCEPT !.default_keyspace = Some(default_keyspace), !.default_consistency_level = consistency]
         IN  IF lazy_connect
             THEN Result([g1 EXCEPT !.lazy_connect_args = Some(LazyArgs(hosts, default_keyspace, consistency, retry_connect, kwargs))], "")
             ELSE IF ~callable(g1.cluster)
                  THEN Result(g1, "TypeError")
                  ELSE Result(g1, "")

\* --------------------------------------------------- handle_lazy_connect
handle_lazy_connect(g) ==
    IF g.lazy_connect_args # None
    THEN LET a == g.lazy_connect_args[1]
             r == setup([g EXCEPT !.lazy_connect_args = None], a.hosts, a.kwargs.default_keyspace, a.kwargs.consistency, a.kwargs.lazy_connect, a.kwargs.retry_connect, a.kwargs.extra)
         IN  [r EXCEPT !.setups = <<a>>]
    ELSE Result(g, "")

\* ------------------------------------------------- SessionManager.execute
\* Session.execute of the driver: the rows the session returns for stmt.
SessionResult(sid, stmt) == Some([rows_of |-> sid, statement |-> stmt])

Submission(sid, stmt, parameters) == [session |-> sid, statement |-> stmt, parameters |-> parameters]

\* self._sessions.get(connection_key): None for an absent key
SessionsGet(m, connection_key) == IF connection_key # None /\ connection_key[1] \in DOMAIN m.sessions THEN Some(m.sessions[connection_key[1]]) ELSE None

\* Line 226: not session
NoSession(s) == s = None

\* Lines 227-228 build the message with str + connection_key, which raises
\* TypeError itself when connection_key is None.
SessionManager_execute(g, m, query, parameters, connection_key) ==
    LET s == SessionsGet(m, connection_key)
    IN  IF NoSession(s)
        THEN IF connection_key = None
             THEN Result(g, "TypeError")
             ELSE Result(g, "Exception: No session found")
        ELSE [Result(g, "") EXCEPT !.submitted = <<Submission(s[1].id, query, parameters)>>, !.value = SessionResult(s[1].id, query)]

\* --------------------------------------------------------------- execute
\* A slip the model is tested against: the argument is tested for
\* truth, so that the level 0 counts as not given.
EffectiveConsistency_Falsy(g, consistency_level) == IF consistency_level = None \/ consistency_level[1] = 0 THEN g.default_consistency_level ELSE consistency_level[1]

\* Lines 173-174
EffectiveConsistency(g, consistency_level) == IF consistency_level = None THEN g.default_consistency_level ELSE consistency_level[1]

\* Lines 176-185: a driver Statement passes through; a BaseCQLStatement and
\* a text query are wrapped in a SimpleStatement.
Normalize(query, cl) == IF query.kind = "Statement" THEN query ELSE [kind |-> "SimpleStatement", consistency_level |-> Some(cl)]

\* Lines 180 and 189: query.get_context() for a BaseCQLStatement, else
\* params (None in every call modelled) or {}
Params(query) == IF query.kind = "BaseCQLStatement" THEN "context" ELSE "{}"

\* A slip the model is tested against: the session is never checked.
NotConfigured_Never(s) == FALSE

\* Line 170: not session
NotConfigured(s) == s = None

\* Line 190 on a session that is None would raise AttributeError; line 170
\* keeps that from happening.

\* Lines 170-193, r being what handle_lazy_connect left behind.
execute_tail(r, query, consistency_level, connection_key) ==
    IF NotConfigured(r.g.session)
    THEN [r EXCEPT !.err = "CQLEngineException: setup required"]
    ELSE IF r.g.session = None
    THEN [r EXCEPT !.err = "AttributeError"]
    ELSE LET stmt == Normalize(query, EffectiveConsistency(r.g, consistency_level))
             s == r.g.session[1]
         IN  IF s.kind = "SessionManager"
             THEN LET e == SessionManager_execute(r.g, s, stmt, Params(query), connection_key)
                  IN  [e EXCEPT !.setups = r.setups, !.connects = r.connects]
             ELSE [r EXCEPT !.submitted = <<Submission(s.id, stmt, Params(query))>>, !.value = SessionResult(s.id, stmt)]

execute(g, query, consistency_level, connection_key) ==
    LET r == handle_lazy_connect(g)
    IN  IF r.err # "" THEN r ELSE execute_tail(r, query, consistency_level, connection_key)

\* ----------------------------------------------------------- get_session
get_session(g) ==
    LET r == handle_lazy_connect(g)
    IN  IF r.err # "" THEN r ELSE [r EXCEPT !.value = r.g.session]

\* --------------------------------------------------------- SessionManager
\* SessionManager.__init__
EmptyManager == [kind |-> "SessionManager", sessions |-> EmptyDict, clusters |-> EmptyDict]

IsManager(s) == s # None /\ s[1].kind = "SessionManager"

\* create_cluster_and_session and add_connection of the manager held in
\* g.session.  A connect failure propagates and stores nothing.
SessionManager_add_connection(g, hosts, keyspace, cluster_name) ==
    LET m == g.session[1]
        c == NewCluster(FreshId(g), hosts)
        key == get_connection_key(cluster_name, keyspace)
    IN  IF ~CanConnect(hosts)
        THEN [Result(g, "NoHostAvailable") EXCEPT !.connects = <<Connect(c)>>]
        ELSE [Result([g EXCEPT !.session = Some([m EXCEPT !.sessions = DictSet(@, key, NewSession(c, "dict_factory")), !.clusters = DictSet(@, key, c)])], "") EXCEPT !.connects = <<Connect(c)>>]

\* The loops of lines 160-162 over the connections dict, given as the
\* sequence of its (cluster_name, keyspace, hosts) items in iteration order.
RECURSIVE AddAll(_, _, _)
AddAll(g, conns, i) ==
    IF i > Len(conns)
    THEN Result(g, "")
    ELSE LET a == SessionManager_add_connection(g, conns[i].hosts, conns[i].keyspace, conns[i].cluster_name)
         IN  IF a.err # ""
             THEN a
             ELSE LET rest == AddAll(a.g, conns, i + 1)
                  IN  [rest EXCEPT !.connects = a.connects \o @]

setup_connections(g, conns) == AddAll([g EXCEPT !.session = Some(EmptyManager)], conns, 1)

\* ----------------------------------------------------------- get_cluster
\* Lines 252-253 read session._clusters: an attribute only a SessionManager
\* has.
get_cluster(g, clustername, keyspace) ==
    LET connection_key == get_connection_key(clustername, keyspace)
    IN  IF ~IsManager(g.session)
        THEN Result(g, "AttributeError")
        ELSE IF connection_key \notin DOMAIN g.session[1].clusters
        THEN Result(g, "CQLEngineException: cluster is not configured")
        ELSE [Result(g, "") EXCEPT !.value = Some(g.session[1].clusters[connection_key])]

\* ---------------------------------------------------------- register_udt
\* Lines 269-272
UdtSet(udt, keyspace, type_name, klass) == DictSet(udt, keyspace, DictSet(IF keyspace \in DOMAIN udt THEN udt[keyspace] ELSE EmptyDict, type_name, klass))

\* A slip the model is tested against: no except clause, so that
\* UserTypeDoesNotExist reaches the caller.
register_udt_NoCatch(g, keyspace, type_name, klass, outcome) ==
    IF g.cluster = None
    THEN Result(g, "")
    ELSE LET c == g.cluster[1]
             call == [cluster |-> c.id, entry |-> <<keyspace, type_name, klass>>, outcome |-> outcome]
         IN  [Result([g EXCEPT !.cluster = IF outcome = "ok" THEN Some(register_user_type(c, call.entry)) ELSE @], IF outcome = "ok" THEN "" ELSE outcome) EXCEPT !.registered = <<call>>]

\* Lines 274-279, the register_user_type call ending as outcome says.
register_udt(g, keyspace, type_name, klass, outcome) ==
    IF g.cluster = None
    THEN Result(g, "")
    ELSE LET c == g.cluster[1]
             call == [cluster |-> c.id, entry |-> <<keyspace, type_name, klass>>, outcome |-> outcome]
         IN  [Result([g EXCEPT !.cluster = IF outcome = "ok" THEN Some(register_user_type(c, call.entry)) ELSE @], IF outcome = "Exception" THEN "Exception" ELSE "") EXCEPT !.registered = <<call>>]

\* ---------------------------------------------------------------- actions
Assign(g) ==
    /\ cluster' = g.cluster
    /\ session' = g.session
    /\ lazy_connect_args' = g.lazy_connect_args
    /\ default_consistency_level' = g.default_consistency_level
    /\ models_default_keyspace' = g.default_keyspace

\* The history of the current SessionManager, which ends when session is
\* assigned something else.
History(g) == IF IsManager(g.session) THEN added ELSE EmptyDict

\* The record of the register_udt calls made while no cluster is set, when
\* one is kept: a first registration is appended, a repeated one keeps its
\* place.
Record(rec, keyspace, type_name, live) ==
    IF rec = None \/ live \/ \E i \in 1..Len(rec[1]) : rec[1][i] = <<keyspace, type_name>>
    THEN rec
    ELSE Some(Append(rec[1], <<keyspace, type_name>>))

InitRegistry ==
    /\ cluster = None
    /\ session = None
    /\ lazy_connect_args = None
    /\ default_consistency_level = ONE
    /\ udt_by_keyspace = EmptyDict
    /\ models_default_keyspace = None
    /\ reachable \in SUBSET Hosts
    /\ added = EmptyDict
    /\ threads = [t \in Threads |-> Idle]
    /\ resolved = 0
    /\ ret = [op |-> "init"]

Init == InitRegistry /\ recorded = None

\* The network changes: a host becomes reachable or unreachable.
Network(h) ==
    /\ reachable' = IF h \in reachable THEN reachable \ {h} ELSE reachable \cup {h}
    /\ ret' = [op |-> "network"]
    /\ UNCHANGED <<cluster, session, lazy_connect_args, default_consistency_level, udt_by_keyspace, models_default_keyspace, added, recorded, threads, resolved>>

Default(order, out) ==
    LET r == default(Globals, order, out)
    IN  /\ Assign(r.g)
        /\ ret' = [op |-> "default", err |-> r.err, connects |-> r.connects, registered |-> r.registered]
        /\ added' = History(r.g)
        /\ UNCHANGED <<udt_by_keyspace, reachable, recorded, threads, resolved>>

\* set_session(s) with a Session the caller built with its own Cluster.
SetSession(row_factory, order, out) ==
    LET sc == NewCluster(FreshId(Globals), <<"h1">>)
        r == set_session(Globals, NewSession(sc, row_factory), sc, order, out)
    IN  /\ Assign(r.g)
        /\ ret' = [op |-> "set_session", args |-> [s |-> NewSession(sc, row_factory)], err |-> r.err, registered |-> r.registered]
        /\ added' = History(r.g)
        /\ UNCHANGED <<udt_by_keyspace, reachable, recorded, threads, resolved>>

Setup(hosts, default_keyspace, consistency, lazy_connect, retry_connect, kwargs) ==
    LET r == setup(Globals, hosts, default_keyspace, consistency, lazy_connect, retry_connect, kwargs)
    IN  /\ Assign(r.g)
        /\ ret' = [op |-> "setup", args |-> [hosts |-> hosts, default_keyspace |-> default_keyspace, consistency |-> consistency, lazy_connect |-> lazy_connect, retry_connect |-> retry_connect, kwargs |-> kwargs], err |-> r.err, connects |-> r.connects, registered |-> r.registered]
        /\ added' = History(r.g)
        /\ resolved' = IF lazy_connect /\ r.err = "" THEN 0 ELSE resolved
        /\ UNCHANGED <<udt_by_keyspace, reachable, recorded, threads>>

SetupConnections(conns) ==
    LET r == setup_connections(Globals, conns)
    IN  /\ Assign(r.g)
        /\ ret' = [op |-> "setup_connections", args |-> [connections |-> conns], err |-> r.err, connects |-> r.connects, registered |-> r.registered]
        /\ added' = [p \in {<<conns[i].cluster_name, conns[i].keyspace>> : i \in {j \in 1..Len(r.connects) : r.connects[j].ok}} |-> r.connects[CHOOSE i \in 1..Len(r.connects) : <<conns[i].cluster_name, conns[i].keyspace>> = p].cluster]
        /\ UNCHANGED <<udt_by_keyspace, reachable, recorded, threads, resolved>>

\* add_connection called on the SessionManager get_session() returned.
AddConnection(hosts, keyspace, cluster_name) ==
    /\ IsManager(session)
    /\ LET r == SessionManager_add_connection(Globals, hosts, keyspace, cluster_name)
       IN  /\ Assign(r.g)
           /\ ret' = [op |-> "add_connection", args |-> [hosts |-> hosts, keyspace |-> keyspace, cluster_name |-> cluster_name], err |-> r.err, connects |-> r.connects, registered |-> r.registered]
           /\ added' = IF r.err = "" THEN DictSet(added, <<cluster_name, keyspace>>, r.connects[1].cluster) ELSE added
    /\ UNCHANGED <<udt_by_keyspace, reachable, recorded, threads, resolved>>

\* SessionManager.execute called on the SessionManager itself.
ManagerExecute(query, connection_key) ==
    /\ IsManager(session)
    /\ LET r == SessionManager_execute(Globals, session[1], query, "{}", connection_key)
       IN  /\ Assign(r.g)
           /\ ret' = [op |-> "SessionManager.execute", args |-> [query |-> query, connection_key |-> connection_key], err |-> r.err, submitted |-> r.submitted, value |-> r.value]
    /\ UNCHANGED <<udt_by_keyspace, reachable, added, recorded, threads, resolved>>

Execute(query, consistency_level, connection_key) ==
    LET r == execute(Globals, query, consistency_level, connection_key)
    IN  /\ Assign(r.g)
        /\ ret' = [op |-> "execute", args |-> [query |-> query, consistency_level |-> consistency_level, connection_key |-> connection_key], lazy |-> lazy_connect_args, err |-> r.err, connects |-> r.connects, setups |-> r.setups, submitted |-> r.submitted, value |-> r.value]
        /\ added' = History(r.g)
        /\ resolved' = resolved + Len(r.setups)
        /\ UNCHANGED <<udt_by_keyspace, reachable, recorded, threads>>

GetSession ==
    LET r == get_session(Globals)
    IN  /\ Assign(r.g)
        /\ ret' = [op |-> "get_session", lazy |-> lazy_connect_args, err |-> r.err, connects |-> r.connects, setups |-> r.setups, value |-> r.value]
        /\ added' = History(r.g)
        /\ resolved' = resolved + Len(r.setups)
        /\ UNCHANGED <<udt_by_keyspace, reachable, recorded, threads>>

GetCluster(clustername, keyspace) ==
    LET r == get_cluster(Globals, clustername, keyspace)
    IN  /\ Assign(r.g)
        /\ ret' = [op |-> "get_cluster", args |-> [clustername |-> clustername, keyspace |-> keyspace], err |-> r.err, value |-> r.value]
        /\ added' = History(r.g)
        /\ UNCHANGED <<udt_by_keyspace, reachable, recorded, threads, resolved>>

RegisterUdt(keyspace, type_name, klass, outcome) ==
    LET r == register_udt(Globals, keyspace, type_name, klass, outcome)
    IN  /\ Cardinality(Entries(UdtSet(udt_by_keyspace, keyspace, type_name, klass))) <= MaxUdt
        /\ udt_by_keyspace' = UdtSet(udt_by_keyspace, keyspace, type_name, klass)
        /\ Assign(r.g)
        /\ ret' = [op |-> "register_udt", args |-> [keyspace |-> keyspace, type_name |-> type_name, klass |-> klass], err |-> r.err, registered |-> r.registered]
        /\ added' = History(r.g)
        /\ recorded' = Record(recorded, keyspace, type_name, cluster # None)
        /\ UNCHANGED <<reachable, threads, resolved>>

\* ------------------------------------------- execute() in caller threads
\* A thread's call of execute() or get_session(), one step per line of
\* handle_lazy_connect (lines 261-265); pc names the line the thread is
\* about to run.  Nothing synchronises the threads.
Observation(t, a, r) == [op |-> threads[t].op, thread |-> t, lazy |-> a, err |-> r.err, connects |-> r.connects, setups |-> r.setups, submitted |-> r.submitted, value |-> r.value]

\* The thread enters execute(query) or get_session() and so
\* handle_lazy_connect.
Call(t, op) ==
    /\ threads[t].pc = "idle"
    /\ threads' = [threads EXCEPT ![t] = [pc |-> "261", op |-> op, args |-> None]]
    /\ UNCHANGED <<cluster, session, lazy_connect_args, default_consistency_level, udt_by_keyspace, models_default_keyspace, reachable, added, recorded, resolved, ret>>

\* Line 261: if lazy_connect_args
LazyCheck(t) ==
    /\ threads[t].pc = "261"
    /\ threads' = [threads EXCEPT ![t].pc = IF lazy_connect_args # None THEN "263" ELSE "170"]
    /\ UNCHANGED <<cluster, session, lazy_connect_args, default_consistency_level, udt_by_keyspace, models_default_keyspace, reachable, added, recorded, resolved, ret>>

\* Line 263: hosts, kwargs = lazy_connect_args; unpacking None raises
\* TypeError.
LazyUnpack(t) ==
    /\ threads[t].pc = "263"
    /\ IF lazy_connect_args = None
       THEN /\ threads' = [threads EXCEPT ![t] = Idle]
            /\ ret' = Observation(t, None, Result(Globals, "TypeError"))
       ELSE /\ threads' = [threads EXCEPT ![t].pc = "264", ![t].args = lazy_connect_args]
            /\ ret' = ret
    /\ UNCHANGED <<cluster, session, lazy_connect_args, default_consistency_level, udt_by_keyspace, models_default_keyspace, reachable, added, recorded, resolved>>

\* Line 264: lazy_connect_args = None
LazyClear(t) ==
    /\ threads[t].pc = "264"
    /\ lazy_connect_args' = None
    /\ threads' = [threads EXCEPT ![t].pc = "265"]
    /\ UNCHANGED <<cluster, session, default_consistency_level, udt_by_keyspace, models_default_keyspace, reachable, added, recorded, resolved, ret>>

\* Line 265: setup(hosts, **kwargs) with the thread's own copy
LazySetup(t) ==
    /\ threads[t].pc = "265"
    /\ LET a == threads[t].args[1]
           r == [setup(Globals, a.hosts, a.kwargs.default_keyspace, a.kwargs.consistency, a.kwargs.lazy_connect, a.kwargs.retry_connect, a.kwargs.extra) EXCEPT !.setups = <<a>>]
       IN  /\ Assign(r.g)
           /\ resolved' = IF a.kwargs.lazy_connect /\ r.err = "" THEN 0 ELSE resolved + 1
           /\ added' = History(r.g)
           /\ IF r.err # ""
              THEN threads' = [threads EXCEPT ![t] = Idle] /\ ret' = Observation(t, Some(a), r)
              ELSE threads' = [threads EXCEPT ![t].pc = "170"] /\ ret' = ret
    /\ UNCHANGED <<udt_by_keyspace, reachable, recorded>>

\* The rest of the call once handle_lazy_connect has returned: lines
\* 170-193 of execute(query), line 235 of get_session().
AfterLazyConnect(t, query) ==
    /\ threads[t].pc = "170"
    /\ LET r0 == [Result(Globals, "") EXCEPT !.setups = IF threads[t].args = None THEN <<>> ELSE threads[t].args]
           r == IF threads[t].op = "execute" THEN execute_tail(r0, query, None, None) ELSE [r0 EXCEPT !.value = session]
       IN  /\ Assign(r.g)
           /\ added' = History(r.g)
           /\ ret' = Observation(t, threads[t].args, r)
    /\ threads' = [threads EXCEPT ![t] = Idle]
    /\ UNCHANGED <<udt_by_keyspace, reachable, recorded, resolved>>

\* ----------------------------------------------------------- input sets
\* The setup() calls drawn: two connection profiles without credentials
\* (the second passes an extra keyword through to Cluster) and the same two
\* with a username or a password, each eager or lazy, with or without
\* retry_connect.
SetupProfiles == {[hosts |-> <<"h1">>, default_keyspace |-> <<"k">>, consistency |-> ANY, kwargs |-> {}],
                  [hosts |-> <<"h1", "localhost">>, default_keyspace |-> <<"_", "k">>, consistency |-> ONE, kwargs |-> {"port"}],
                  [hosts |-> <<"h1">>, default_keyspace |-> <<"k">>, consistency |-> ANY, kwargs |-> {"username"}],
                  [hosts |-> <<"h1", "localhost">>, default_keyspace |-> <<"_", "k">>, consistency |-> ONE, kwargs |-> {"password", "port"}]}

OptionalConsistency == {None, Some(ANY)}

Connection == [cluster_name : ClusterNames, keyspace : Keyspaces, hosts : {<<"h1">>}]

\* The connections dicts of at most n entries, each as the sequence of its
\* items in an order the nested iteration can produce.
ConnectionDicts(n) == {conns \in UNION {[1..m -> Connection] : m \in 0..n} : \A i, j \in 1..Len(conns) : i # j => <<conns[i].cluster_name, conns[i].keyspace>> # <<conns[j].cluster_name, conns[j].keyspace>>}

AllKeys == {Some(get_connection_key(c, k)) : c \in ClusterNames, k \in Keyspaces}

\* What the environment decides in one replay of the pending map: the
\* iteration order and how each register_user_type call ends.  A call that
\* raises before the replay (replays = FALSE) leaves nothing to decide.
ReplayChoices(replays) ==
    LET all == {<<order, out>> : order \in Orders(udt_by_keyspace), out \in [Entries(udt_by_keyspace) -> Outcomes]}
    IN  IF replays THEN all ELSE {CHOOSE ch \in all : TRUE}

\* ------------------------------------------------------- specifications
\* The single-session registry: default(), set_session(), setup() eager and
\* lazy, execute() and get_session(), and a SessionManager of at most one
\* connection.
Next ==
    \/ \E h \in Hosts : Network(h)
    \/ \E ch \in ReplayChoices(CanConnect(DefaultHosts)) : Default(ch[1], ch[2])
    \/ \E rf \in RowFactories : \E ch \in ReplayChoices(rf = "dict_factory") : SetSession(rf, ch[1], ch[2])
    \/ \E p \in SetupProfiles, lz \in BOOLEAN, rt \in BOOLEAN : Setup(p.hosts, p.default_keyspace, p.consistency, lz, rt, p.kwargs)
    \/ \E conns \in ConnectionDicts(1) : SetupConnections(conns)
    \/ \E q \in Queries, cl \in OptionalConsistency, key \in {None, Some(get_connection_key(<<"c">>, <<"k">>))} : Execute(q, cl, key)
    \/ GetSession

Spec == Init /\ [][Next]_vars

\* The multi-session router: setup_connections(), add_connection(),
\* SessionManager.execute(), execute() with a connection key, get_cluster().
NextManager ==
    \/ Network("h1")
    \/ \E conns \in ConnectionDicts(MaxConns) : SetupConnections(conns)
    \/ \E c \in Connection : AddConnection(c.hosts, c.keyspace, c.cluster_name)
    \/ \E q \in Queries, key \in {None} \cup AllKeys : ManagerExecute(q, key)
    \/ \E key \in {None} \cup AllKeys : Execute([kind |-> "str", consistency_level |-> None], None, key)
    \/ \E cn \in ClusterNames, ks \in Keyspaces : GetCluster(cn, ks)

\* Only h1, the contact point of every connection added, matters here.
InitManager == Init /\ "localhost" \notin reachable

SpecManager == InitManager /\ [][NextManager]_vars

\* The type registry: register_udt() before and after a connection exists,
\* and the replay by default(), set_session() and setup().
NextUdt ==
    \/ Network("localhost")
    \/ \E ks \in Keyspaces, tn \in TypeNames, kl \in Klasses, o \in Outcomes : RegisterUdt(ks, tn, kl, o)
    \/ \E ch \in ReplayChoices(CanConnect(DefaultHosts)) : Default(ch[1], ch[2])
    \/ \E rf \in RowFactories : \E ch \in ReplayChoices(rf = "dict_factory") : SetSession(rf, ch[1], ch[2])

\* Only localhost, the contact point of default(), matters here.
InitUdt == Init /\ "h1" \in reachable

SpecUdt == InitUdt /\ [][NextUdt]_vars

\* The same, with the record of the order of the register_udt calls kept.
InitUdtOrder == InitRegistry /\ "h1" \in reachable /\ recorded = Some(<<>>)

SpecUdtOrder == InitUdtOrder /\ [][NextUdt]_vars

\* Concurrent callers: threads that call execute() and get_session() while
\* setup() arms lazy connects and default() installs a session.
NextLazy ==
    \/ \E lz \in BOOLEAN : Setup(<<"h1">>, <<"k">>, ANY, lz, FALSE, {})
    \/ \E ch \in ReplayChoices(CanConnect(DefaultHosts)) : Default(ch[1], ch[2])
    \/ \E t \in Threads, op \in {"execute", "get_session"} : Call(t, op)
    \/ \E t \in Threads : LazyCheck(t)
    \/ \E t \in Threads : LazyUnpack(t)
    \/ \E t \in Threads : LazyClear(t)
    \/ \E t \in Threads : LazySetup(t)
    \/ \E t \in Threads : AfterLazyConnect(t, [kind |-> "str", consistency_level |-> None])

InitLazy == Init /\ "h1" \notin reachable

SpecLazy == InitLazy /\ [][NextLazy]_vars

\* The type registry next to the multi-session router: register_udt()
\* before and after setup_connections() and add_connection().
NextUdtManager ==
    \/ Network("h1")
    \/ \E ks \in Keyspaces, tn \in TypeNames, kl \in Klasses, o \in Outcomes : RegisterUdt(ks, tn, kl, o)
    \/ \E conns \in ConnectionDicts(1) : SetupConnections(conns)
    \/ \E c \in Connection : AddConnection(c.hosts, c.keyspace, c.cluster_name)

SpecUdtManager == InitManager /\ [][NextUdtManager]_vars

\* ================================================================ claims
NoCredentials(kwargs) == kwargs \cap {"username", "password"} = {}

StoredArgs(a) == Some([hosts |-> a.hosts, kwargs |-> [extra |-> a.kwargs, default_keyspace |-> a.default_keyspace, consistency |-> a.consistency, lazy_connect |-> FALSE, retry_connect |-> a.retry_connect]])

EagerSetup(r) == r.op = "setup" /\ ~r.args.lazy_connect /\ NoCredentials(r.args.kwargs)

FirstUse(r) == r.op \in {"execute", "get_session"} /\ r.lazy # None

\* C1: an eager setup() without credentials, with a reachable host, returns
\* normally; afterwards cluster is a Cluster for those hosts, one connect was
\* made on it, session is the Session of that Cluster with row factory
\* dict_factory, and every pending UDT entry is registered on the Cluster.
C1_EagerSetupEstablishesSession ==
    (EagerSetup(ret) /\ CanConnect(ret.args.hosts))
    => /\ ret.err = ""
       /\ cluster # None
       /\ cluster[1].hosts = ret.args.hosts
       /\ ret.connects = <<[cluster |-> cluster[1].id, hosts |-> ret.args.hosts, ok |-> TRUE]>>
       /\ session = Some([kind |-> "Session", id |-> cluster[1].id, row_factory |-> "dict_factory"])
       /\ Entries(udt_by_keyspace) \subseteq cluster[1].user_types

\* C2: a lazy setup() without credentials returns normally, makes no
\* connect attempt, leaves cluster and session as they were and stores
\* (hosts, options) with the given keyspace, consistency and retry flag and
\* lazy_connect False in lazy_connect_args.
C2_LazySetupOnlyStoresArgs ==
    [][(ret'.op = "setup" /\ ret'.args.lazy_connect /\ NoCredentials(ret'.args.kwargs))
       => /\ ret'.err = ""
          /\ ret'.connects = <<>>
          /\ cluster' = cluster
          /\ session' = session
          /\ lazy_connect_args' = StoredArgs(ret'.args)]_vars

\* C2 witness: a lazy setup() has returned in a registry that already held
\* a cluster and a session.
C2_Witness == ret.op = "setup" /\ ret.args.lazy_connect /\ ret.err = "" /\ ret.args.retry_connect /\ lazy_connect_args # None /\ cluster # None /\ session # None

\* C3: the first execute() or get_session() after a lazy setup() makes
\* exactly one connect attempt, with the stored hosts; when it succeeds,
\* execute() submits the query to the new session.
C3_FirstUseConnectsOnce ==
    FirstUse(ret)
    => /\ Len(ret.setups) = 1
       /\ Len(ret.connects) = 1
       /\ ret.connects[1].hosts = ret.lazy[1].hosts
       /\ (ret.connects[1].ok /\ ret.op = "execute")
          => /\ ret.err = ""
             /\ session # None
             /\ Len(ret.submitted) = 1
             /\ ret.submitted[1].session = ret.connects[1].cluster

\* C4: an eager setup() that finds every host unreachable raises the
\* connect failure; lazy_connect_args is armed with the same hosts and
\* parameters when retry_connect is true and is left as it was otherwise.
C4_FailedEagerSetupArmsRetry ==
    [][(EagerSetup(ret') /\ ~CanConnect(ret'.args.hosts))
       => /\ ret'.err = "NoHostAvailable"
          /\ lazy_connect_args' = IF ret'.args.retry_connect THEN StoredArgs(ret'.args) ELSE lazy_connect_args]_vars

\* C5: the execute() that follows an eager setup(retry_connect=True) which
\* failed with every host unreachable makes one connect attempt with the
\* same hosts; it raises the connect failure when the attempt fails, and
\* otherwise establishes the session and submits the query.
C5_RetryOnNextExecute ==
    [][(EagerSetup(ret) /\ ret.args.retry_connect /\ ret.err # "" /\ ~CanConnect(ret.args.hosts) /\ ret'.op = "execute")
       => /\ Len(ret'.connects) = 1
          /\ ret'.connects[1].hosts = ret.args.hosts
          /\ IF ret'.connects[1].ok
             THEN ret'.err = "" /\ session' # None /\ Len(ret'.submitted) = 1
             ELSE ret'.err = "NoHostAvailable"]_vars

C7_CredentialsRejectedFirst ==
    [][(ret'.op = "setup" /\ ~NoCredentials(ret'.args.kwargs))
       => /\ ret'.err = "CQLEngineException: username & password"
          /\ ret'.connects = <<>>
          /\ UNCHANGED <<cluster, session, default_consistency_level, lazy_connect_args, models_default_keyspace>>]_vars

\* C7 witness: a setup() with a password was rejected while a lazy connect
\* was armed and a session was set.
C7_Witness == ret.op = "setup" /\ "password" \in ret.args.kwargs /\ ret.err = "CQLEngineException: username & password" /\ lazy_connect_args # None /\ session # None

\* C8: set_session(s) with a row factory other than dict_factory raises the
\* configuration error, registers no UDT on any cluster and leaves session
\* and cluster as they were.
C8_SetSessionChecksRowFactoryFirst ==
    [][(ret'.op = "set_session" /\ ret'.args.s.row_factory # "dict_factory")
       => /\ ret'.err = "CQLEngineException: row_factory"
          /\ ret'.registered = <<>>
          /\ UNCHANGED <<cluster, session>>]_vars

\* C8 witness: set_session was rejected while UDTs were pending and a
\* session was set.
C8_Witness == ret.op = "set_session" /\ ret.args.s.row_factory # "dict_factory" /\ ret.err = "CQLEngineException: row_factory" /\ Entries(udt_by_keyspace) # {} /\ session # None

\* C9: execute() with no session and no lazy connect armed raises the
\* 'setup required' error and submits nothing; with a lazy connect armed,
\* setup() is called once with the stored arguments first, and the 'setup
\* required' error is raised only when no session exists after it.
C9_NotConfiguredAfterResolution ==
    /\ (ret.op = "execute" /\ ret.lazy = None /\ session = None)
       => (ret.err = "CQLEngineException: setup required" /\ ret.submitted = <<>> /\ ret.setups = <<>>)
    /\ (ret.op = "execute" /\ ret.lazy # None) => ret.setups = ret.lazy
    /\ (ret.op = "execute" /\ ret.err = "CQLEngineException: setup required")
       => (session = None /\ ret.submitted = <<>>)
    /\ (ret.op = "execute" /\ ret.submitted # <<>>) => session # None

\* C9 witness: execute() was called on the unconfigured registry.
C9_Witness == ret.op = "execute" /\ ret.lazy = None /\ session = None /\ ret.err = "CQLEngineException: setup required"

\* C10: SessionManager.execute with the key of an added (cluster_name,
\* keyspace) pair submits the query once, to the session the latest
\* add_connection for that pair created, and returns its result.
C10_RoutesToSessionOfPair ==
    (ret.op = "SessionManager.execute" /\ ret.args.connection_key # None)
    => \A p \in DOMAIN added :
         get_connection_key(p[1], p[2]) = ret.args.connection_key[1]
         => /\ ret.err = ""
            /\ ret.submitted = <<[session |-> added[p], statement |-> ret.args.query, parameters |-> "{}"]>>
            /\ ret.value = Some([rows_of |-> added[p], statement |-> ret.args.query])

\* C11: SessionManager.execute with a connection_key that has no session in
\* the manager, None included, raises the lookup error for that key,
\* submits nothing to any session and leaves the manager's session and
\* cluster maps as they were.
C11_MissingKeyRaisesLookupError ==
    [][(ret'.op = "SessionManager.execute" /\ SessionsGet(session[1], ret'.args.connection_key) = None)
       => /\ ret'.err = "Exception: No session found"
          /\ ret'.submitted = <<>>
          /\ session' = session]_vars

\* C12: two different (cluster_name, keyspace) pairs added to the
\* SessionManager never have the same connection key.
C12_KeysUnambiguous ==
    \A p, q \in DOMAIN added : get_connection_key(p[1], p[2]) = get_connection_key(q[1], q[2]) => p = q

\* The (keyspace, type_name) pairs of keyspace ks that register_udt recorded
\* while no cluster was set, in the order recorded, and those among the
\* register_user_type calls of a replay, in the order called.
PendingOf(ks) == SelectSeq(recorded[1], LAMBDA e : e[1] = ks)

ReplayedOf(calls, ks) == LET sel == SelectSeq(calls, LAMBDA c : c.entry[1] = ks /\ \E i \in 1..Len(recorded[1]) : recorded[1][i] = <<ks, c.entry[2]>>) IN [i \in 1..Len(sel) |-> <<sel[i].entry[1], sel[i].entry[2]>>]

\* C13: when default() or set_session() has returned normally, the entries
\* that register_udt recorded while no cluster was set have each been
\* registered against the new Cluster, within each keyspace in the order in
\* which they were recorded.
C13_PendingReplayedInOrder ==
    (ret.op \in {"default", "set_session"} /\ ret.err = "")
    => /\ \A i \in 1..Len(ret.registered) : ret.registered[i].cluster = cluster[1].id
       /\ \A ks \in Keyspaces : ReplayedOf(ret.registered, ks) = PendingOf(ks)

\* A setup() call that got past the option validation of line 109.
ValidatedSetup(r) == r.op = "setup" /\ NoCredentials(r.args.kwargs)

\* C14: default_consistency_level is ONE at first, becomes the consistency
\* of each setup() call that gets past option validation (the call made by
\* the lazy resolution included) and is changed by nothing else; execute()
\* submits a driver Statement unchanged and any other query as a statement
\* whose consistency level is the argument when one is given, the level 0
\* included, and default_consistency_level otherwise.
C14_EffectiveConsistency ==
    /\ default_consistency_level = ONE
    /\ [][/\ ValidatedSetup(ret') => default_consistency_level' = ret'.args.consistency
          /\ (ret'.op \in {"execute", "get_session"} /\ ret'.lazy # None) => default_consistency_level' = ret'.lazy[1].kwargs.consistency
          /\ (~ValidatedSetup(ret') /\ ~(ret'.op \in {"execute", "get_session"} /\ ret'.lazy # None)) => default_consistency_level' = default_consistency_level
          /\ (ret'.op = "execute" /\ ret'.submitted # <<>>)
             => /\ Len(ret'.submitted) = 1
                /\ ret'.submitted[1].statement =
                     IF ret'.args.query.kind = "Statement" THEN ret'.args.query
                     ELSE [kind |-> "SimpleStatement", consistency_level |-> IF ret'.args.consistency_level # None THEN ret'.args.consistency_level ELSE Some(default_consistency_level)]]_vars

\* C14 witness: execute() submitted a text query with the explicit level 0
\* while the default was ONE.
C14_Witness == ret.op = "execute" /\ ret.args.query.kind = "str" /\ ret.args.consistency_level = Some(ANY) /\ default_consistency_level = ONE /\ Len(ret.submitted) = 1 /\ ret.submitted[1].statement.consistency_level = Some(ANY)

\* C15: get_cluster(cluster_name, keyspace) returns the Cluster the
\* SessionManager stores under get_connection_key(cluster_name, keyspace);
\* it raises the 'cluster is not configured' error when the manager has no
\* such key and when no session is set at all.
C15_GetClusterOrNotConfigured ==
    ret.op = "get_cluster"
    => LET key == get_connection_key(ret.args.clustername, ret.args.keyspace)
       IN  IF IsManager(session) /\ key \in DOMAIN session[1].clusters
           THEN ret.err = "" /\ ret.value = Some(session[1].clusters[key])
           ELSE ret.err = "CQLEngineException: cluster is not configured" /\ ret.value = None

\* C16: between one arming of lazy_connect_args and the next,
\* handle_lazy_connect calls setup() at most once, however the threads'
\* steps interleave.
C16_AtMostOneResolution == resolved <= 1

\* C17: once setup_connections() has returned, session is a SessionManager
\* and nothing of the single-session mode is left: cluster refers to no
\* Cluster and no lazy connect is armed; once default() or set_session()
\* has returned normally, session is a single Session.
C17_ModeSwitchIsWholesale ==
    /\ (ret.op = "setup_connections" /\ ret.err = "")
       => (IsManager(session) /\ cluster = None /\ lazy_connect_args = None)
    /\ (ret.op \in {"default", "set_session", "setup"} /\ ret.err = "" /\ ~(ret.op = "setup" /\ ret.args.lazy_connect))
       => (session # None /\ session[1].kind = "Session")

\* C18: every Cluster that add_connection() or setup_connections()
\* connects has each entry of the pending map registered against it, and
\* a register_udt() call is attempted against every live Cluster, those of
\* the SessionManager included.
C18_EveryClusterReceivesUdts ==
    /\ ret.op \in {"add_connection", "setup_connections"}
       => \A i \in 1..Len(ret.connects) : ret.connects[i].ok
            => \A e \in Entries(udt_by_keyspace) : \E j \in 1..Len(ret.registered) : ret.registered[j].cluster = ret.connects[i].cluster /\ ret.registered[j].entry = e
    /\ ret.op = "register_udt"
       => \A id \in LiveIds(Globals) : \E j \in 1..Len(ret.registered) : ret.registered[j].cluster = id /\ ret.registered[j].entry = <<ret.args.keyspace, ret.args.type_name, ret.args.klass>>

\* A default() or set_session() call that got as far as the replay.
Replayed(r) == r.op \in {"default", "set_session"} /\ r.err \in {"", "Exception"}

\* C19: in a replay the register_user_type calls go to the new Cluster and
\* only the last one can have failed with an error other than
\* UserTypeDoesNotExist, which the caller then gets; otherwise the call
\* returns normally having tried every pending entry once, those after a
\* UserTypeDoesNotExist included.  register_udt() with a cluster set makes
\* one call, returns normally when it succeeds or fails with
\* UserTypeDoesNotExist and raises any other failure.  The pending map is
\* not changed by a replay and holds the entry after register_udt().
C19_OnlyUserTypeDoesNotExistSwallowed ==
    [][/\ Replayed(ret')
          => LET calls == ret'.registered
                 n == Len(calls)
             IN  /\ udt_by_keyspace' = udt_by_keyspace
                 /\ \A i \in 1..n : calls[i].cluster = cluster'[1].id /\ (i < n => calls[i].outcome # "Exception")
                 /\ IF n > 0 /\ calls[n].outcome = "Exception"
                    THEN ret'.err = "Exception"
                    ELSE /\ ret'.err = ""
                         /\ n = Cardinality(Entries(udt_by_keyspace))
                         /\ {calls[i].entry : i \in 1..n} = Entries(udt_by_keyspace)
       /\ ret'.op = "register_udt"
          => /\ <<ret'.args.keyspace, ret'.args.type_name, ret'.args.klass>> \in Entries(udt_by_keyspace')
             /\ Entries(udt_by_keyspace) \ Entries(udt_by_keyspace') \subseteq {e \in Entries(udt_by_keyspace) : e[1] = ret'.args.keyspace /\ e[2] = ret'.args.type_name}
             /\ IF cluster = None
                THEN ret'.registered = <<>> /\ ret'.err = ""
                ELSE /\ Len(ret'.registered) = 1
                     /\ ret'.registered[1].cluster = cluster[1].id
                     /\ ret'.registered[1].entry = <<ret'.args.keyspace, ret'.args.type_name, ret'.args.klass>>
                     /\ ret'.err = IF ret'.registered[1].outcome = "Exception" THEN "Exception" ELSE ""]_vars

\* C19 witness: a replay whose first registration failed with
\* UserTypeDoesNotExist went on to register the second entry and returned
\* normally.
C19_Witness == Replayed(ret) /\ ret.err = "" /\ Len(ret.registered) = 2 /\ ret.registered[1].outcome = "UserTypeDoesNotExist" /\ ret.registered[2].outcome = "ok" /\ Cardinality(Entries(udt_by_keyspace)) = 2

\* C20: whenever session is a single Session, cluster is the Cluster that
\* session was derived from.
C20_ClusterBacksSession ==
    (session # None /\ session[1].kind = "Session") => (cluster # None /\ cluster[1].id = session[1].id)

====
